---- MODULE Spec2Model ----
(***************************************************************************)
(* A model of package xid (src/id.go): the 12-byte identifier, its base32  *)
(* text codec, the generator with its shared atomic counter, and the       *)
(* package-level initialisation of that counter.                           *)
(*                                                                         *)
(* Bytes are the integers 0..255 and a text is a sequence of bytes (ASCII  *)
(* codes).  A uint64 is kept as four 16-bit words, most significant first, *)
(* so that 64-bit arithmetic keeps its width.                              *)
(***************************************************************************)
EXTENDS Integers, Sequences, FiniteSets, TLC

VARIABLES
    id,            \* codec: the ID value the methods are called on
    src,           \* codec: the text handed to UnmarshalText / FromString
    enc,           \* the latest String()/MarshalText() call: <<>> or <<call>>
    enc0,          \* the String() call before that one: <<>> or <<call>>
    res,           \* the latest UnmarshalText / FromString call: <<>> or <<call>>
    atomicCount,   \* the package-level counter (uint64)
    seed,          \* history: the counter's value when the callers started
    nAdds,         \* history: number of atomic increments performed
    last,          \* generator: the identifier returned by the latest call
    prev,          \* generator: the identifier returned by the call before
    got,           \* generator: the latest accessor call on the latest identifier
    pc,            \* concurrent callers: position of each caller
    loc,           \* concurrent callers: locals of each caller
    observed,      \* concurrent callers: the adder values obtained so far
    initPc,        \* package initialisation: position in randUInt64
    b,             \* package initialisation: randUInt64's buffer
    operand,       \* package initialisation: next operand of the return expression
    acc            \* package initialisation: operands evaluated so far

vars == <<id, src, enc, enc0, res, atomicCount, seed, nAdds, last, prev, got,
          pc, loc, observed, initPc, b, operand, acc>>

codecVars == <<id, src, enc, enc0, res>>
genVars   == <<atomicCount, seed, nAdds, last, prev, got>>
concVars  == <<pc, loc, observed>>
initVars  == <<initPc, b, operand, acc>>

(***************************************************************************)
(* Each specification below drives one part of the package; the variables  *)
(* of the other parts rest at these values.                                *)
(***************************************************************************)
IdleCodec ==
    /\ id = [i \in 1..12 |-> 0] /\ src = <<>>
    /\ enc = <<>> /\ enc0 = <<>> /\ res = <<>>

IdleGen ==
    /\ atomicCount = <<0, 0, 0, 0>> /\ seed = <<0, 0, 0, 0>> /\ nAdds = 0
    /\ last = <<>> /\ prev = <<>> /\ got = <<>>

IdleConc == pc = <<>> /\ loc = <<>> /\ observed = <<>>

IdleInit == initPc = "ready" /\ b = <<>> /\ operand = 0 /\ acc = <<>>

(***************************************************************************)
(* Byte arithmetic: Go's operators on the type byte.                       *)
(***************************************************************************)
Byte == 0..255

RECURSIVE Pow2(_)
Pow2(k) == IF k = 0 THEN 1 ELSE 2 * Pow2(k - 1)

\* v >> k on a byte
Shr(v, k) == v \div Pow2(k)

\* v << k on a byte: the bits shifted past bit 7 are lost
Shl(v, k) == (v * Pow2(k)) % 256

RECURSIVE BitAnd(_, _)
BitAnd(x, y) ==
    IF x = 0 \/ y = 0 THEN 0
    ELSE (x % 2) * (y % 2) + 2 * BitAnd(x \div 2, y \div 2)

RECURSIVE BitOr(_, _)
BitOr(x, y) ==
    IF x = 0 THEN y
    ELSE IF y = 0 THEN x
    ELSE (IF x % 2 = 1 \/ y % 2 = 1 THEN 1 ELSE 0) + 2 * BitOr(x \div 2, y \div 2)

(***************************************************************************)
(* Constants of the package.                                               *)
(***************************************************************************)
encodedLen == 20
rawLen == 12

\* A faulty variant of encoding: the standard base32 alphabet "A-Z2-7", whose characters
\* are not in ascending order of their values.
encodingStd ==
    <<65, 66, 67, 68, 69, 70, 71, 72, 73, 74, 75, 76, 77, 78, 79, 80, 81, 82,
      83, 84, 85, 86, 87, 88, 89, 90, 50, 51, 52, 53, 54, 55>>

\* "0123456789abcdefghijklmnopqrstuv" as ASCII codes
encoding ==
    <<48, 49, 50, 51, 52, 53, 54, 55, 56, 57,
      97, 98, 99, 100, 101, 102, 103, 104, 105, 106, 107,
      108, 109, 110, 111, 112, 113, 114, 115, 116, 117, 118>>

ErrInvalidID == "xid: invalid ID"
nil == "nil"

NANO == 0
LOW == 1
MEDIUM == 2
HIGH == 3

ZeroID == [i \in 1..rawLen |-> 0]

\* encoding[v] of the source (0-based index v)
EncodingAt(v) == encoding[v + 1]

\* A faulty variant of decInit: the first loop of init() left out, so that bytes
\* outside the alphabet keep the zero value.
decInitZero(c) ==
    IF \E i \in 1..Len(encoding) : encoding[i] = c
    THEN (CHOOSE i \in 1..Len(encoding) : encoding[i] = c) - 1
    ELSE 0

\* The decoding map as func init() leaves it: 0xFF everywhere, then
\* dec[encoding[i]] = i for every i.
decInit(c) ==
    IF \E i \in 1..Len(encoding) : encoding[i] = c
    THEN (CHOOSE i \in 1..Len(encoding) : encoding[i] = c) - 1
    ELSE 255

dec == [c \in Byte |-> decInit(c)]

\* dec[c] of the source
DecAt(c) == dec[c]

\* A faulty variant of encode: the last symbol shifts id[11] by 3 instead of 4.
encodeSlip(x) ==
    << EncodingAt(Shr(x[1], 3)),
       EncodingAt(BitOr(BitAnd(Shr(x[2], 6), 31), BitAnd(Shl(x[1], 2), 31))),
       EncodingAt(BitAnd(Shr(x[2], 1), 31)),
       EncodingAt(BitOr(BitAnd(Shr(x[3], 4), 31), BitAnd(Shl(x[2], 4), 31))),
       EncodingAt(BitOr(Shr(x[4], 7), BitAnd(Shl(x[3], 1), 31))),
       EncodingAt(BitAnd(Shr(x[4], 2), 31)),
       EncodingAt(BitOr(Shr(x[5], 5), BitAnd(Shl(x[4], 3), 31))),
       EncodingAt(BitAnd(x[5], 31)),
       EncodingAt(Shr(x[6], 3)),
       EncodingAt(BitOr(BitAnd(Shr(x[7], 6), 31), BitAnd(Shl(x[6], 2), 31))),
       EncodingAt(BitAnd(Shr(x[7], 1), 31)),
       EncodingAt(BitOr(BitAnd(Shr(x[8], 4), 31), BitAnd(Shl(x[7], 4), 31))),
       EncodingAt(BitOr(Shr(x[9], 7), BitAnd(Shl(x[8], 1), 31))),
       EncodingAt(BitAnd(Shr(x[9], 2), 31)),
       EncodingAt(BitOr(Shr(x[10], 5), BitAnd(Shl(x[9], 3), 31))),
       EncodingAt(BitAnd(x[10], 31)),
       EncodingAt(Shr(x[11], 3)),
       EncodingAt(BitOr(BitAnd(Shr(x[12], 6), 31), BitAnd(Shl(x[11], 2), 31))),
       EncodingAt(BitAnd(Shr(x[12], 1), 31)),
       EncodingAt(BitAnd(Shl(x[12], 3), 31)) >>

\* A faulty variant of decode: id[4] shifts dec[src[6]] by 4 instead of 5.
decodeSlip(s) ==
    << BitOr(Shl(DecAt(s[1]), 3), Shr(DecAt(s[2]), 2)),
       BitOr(BitOr(Shl(DecAt(s[2]), 6), Shl(DecAt(s[3]), 1)), Shr(DecAt(s[4]), 4)),
       BitOr(Shl(DecAt(s[4]), 4), Shr(DecAt(s[5]), 1)),
       BitOr(BitOr(Shl(DecAt(s[5]), 7), Shl(DecAt(s[6]), 2)), Shr(DecAt(s[7]), 3)),
       BitOr(Shl(DecAt(s[7]), 4), DecAt(s[8])),
       BitOr(Shl(DecAt(s[9]), 3), Shr(DecAt(s[10]), 2)),
       BitOr(BitOr(Shl(DecAt(s[10]), 6), Shl(DecAt(s[11]), 1)), Shr(DecAt(s[12]), 4)),
       BitOr(Shl(DecAt(s[12]), 4), Shr(DecAt(s[13]), 1)),
       BitOr(BitOr(Shl(DecAt(s[13]), 7), Shl(DecAt(s[14]), 2)), Shr(DecAt(s[15]), 3)),
       BitOr(Shl(DecAt(s[15]), 5), DecAt(s[16])),
       BitOr(Shl(DecAt(s[17]), 3), Shr(DecAt(s[18]), 2)),
       BitOr(BitOr(Shl(DecAt(s[18]), 6), Shl(DecAt(s[19]), 1)), Shr(DecAt(s[20]), 4)) >>

(***************************************************************************)
(* encode: the 20 output symbols, in the source's order.  x[i+1] is the    *)
(* source's id[i].                                                         *)
(***************************************************************************)
encode(x) ==
    << EncodingAt(Shr(x[1], 3)),
       EncodingAt(BitOr(BitAnd(Shr(x[2], 6), 31), BitAnd(Shl(x[1], 2), 31))),
       EncodingAt(BitAnd(Shr(x[2], 1), 31)),
       EncodingAt(BitOr(BitAnd(Shr(x[3], 4), 31), BitAnd(Shl(x[2], 4), 31))),
       EncodingAt(BitOr(Shr(x[4], 7), BitAnd(Shl(x[3], 1), 31))),
       EncodingAt(BitAnd(Shr(x[4], 2), 31)),
       EncodingAt(BitOr(Shr(x[5], 5), BitAnd(Shl(x[4], 3), 31))),
       EncodingAt(BitAnd(x[5], 31)),
       EncodingAt(Shr(x[6], 3)),
       EncodingAt(BitOr(BitAnd(Shr(x[7], 6), 31), BitAnd(Shl(x[6], 2), 31))),
       EncodingAt(BitAnd(Shr(x[7], 1), 31)),
       EncodingAt(BitOr(BitAnd(Shr(x[8], 4), 31), BitAnd(Shl(x[7], 4), 31))),
       EncodingAt(BitOr(Shr(x[9], 7), BitAnd(Shl(x[8], 1), 31))),
       EncodingAt(BitAnd(Shr(x[9], 2), 31)),
       EncodingAt(BitOr(Shr(x[10], 5), BitAnd(Shl(x[9], 3), 31))),
       EncodingAt(BitAnd(x[10], 31)),
       EncodingAt(Shr(x[11], 3)),
       EncodingAt(BitOr(BitAnd(Shr(x[12], 6), 31), BitAnd(Shl(x[11], 2), 31))),
       EncodingAt(BitAnd(Shr(x[12], 1), 31)),
       EncodingAt(BitAnd(Shl(x[12], 4), 31)) >>

(***************************************************************************)
(* decode: the 12 output bytes.  s[i+1] is the source's src[i].            *)
(***************************************************************************)
decode(s) ==
    << BitOr(Shl(DecAt(s[1]), 3), Shr(DecAt(s[2]), 2)),
       BitOr(BitOr(Shl(DecAt(s[2]), 6), Shl(DecAt(s[3]), 1)), Shr(DecAt(s[4]), 4)),
       BitOr(Shl(DecAt(s[4]), 4), Shr(DecAt(s[5]), 1)),
       BitOr(BitOr(Shl(DecAt(s[5]), 7), Shl(DecAt(s[6]), 2)), Shr(DecAt(s[7]), 3)),
       BitOr(Shl(DecAt(s[7]), 5), DecAt(s[8])),
       BitOr(Shl(DecAt(s[9]), 3), Shr(DecAt(s[10]), 2)),
       BitOr(BitOr(Shl(DecAt(s[10]), 6), Shl(DecAt(s[11]), 1)), Shr(DecAt(s[12]), 4)),
       BitOr(Shl(DecAt(s[12]), 4), Shr(DecAt(s[13]), 1)),
       BitOr(BitOr(Shl(DecAt(s[13]), 7), Shl(DecAt(s[14]), 2)), Shr(DecAt(s[15]), 3)),
       BitOr(Shl(DecAt(s[15]), 5), DecAt(s[16])),
       BitOr(Shl(DecAt(s[17]), 3), Shr(DecAt(s[18]), 2)),
       BitOr(BitOr(Shl(DecAt(s[18]), 6), Shl(DecAt(s[19]), 1)), Shr(DecAt(s[20]), 4)) >>

\* UnmarshalText on receiver `recv` with argument `text`: the new receiver
\* value and the error returned.
UnmarshalTextOf(recv, text) ==
    IF Len(text) # encodedLen
    THEN [id |-> recv, err |-> ErrInvalidID]
    ELSE IF \E i \in 1..Len(text) : DecAt(text[i]) = 255
    THEN [id |-> recv, err |-> ErrInvalidID]
    ELSE [id |-> decode(text), err |-> nil]

\* FromString: i := &ID{}; err := i.UnmarshalText([]byte(id)); return *i, err
FromStringOf(text) == UnmarshalTextOf(ZeroID, text)

\* String / MarshalText: text := make([]byte, encodedLen); encode(text, id[:])
StringOf(x) == encode(x)

(***************************************************************************)
(* 64-bit values: four 16-bit words, most significant first.               *)
(***************************************************************************)
\* u + 1 on a uint64, wrapping at 2^64
U64Inc(u) ==
    IF u[4] < 65535 THEN <<u[1], u[2], u[3], u[4] + 1>>
    ELSE IF u[3] < 65535 THEN <<u[1], u[2], u[3] + 1, 0>>
    ELSE IF u[2] < 65535 THEN <<u[1], u[2] + 1, 0, 0>>
    ELSE IF u[1] < 65535 THEN <<u[1] + 1, 0, 0, 0>>
    ELSE <<0, 0, 0, 0>>

\* byte(u >> (8 * k)), k in 0..7
ByteOfU64(u, k) ==
    LET w == u[4 - (k \div 2)]
    IN  IF k % 2 = 0 THEN w % 256 ELSE w \div 256

\* A faulty variant of PutUint64: the bytes least significant first (binary.LittleEndian).
PutUint64Little(v) == [i \in 1..8 |-> ByteOfU64(v, i - 1)]

\* binary.BigEndian.PutUint64: the 8 bytes of v, most significant first
PutUint64(v) == [i \in 1..8 |-> ByteOfU64(v, 8 - i)]

\* binary.BigEndian.Uint64: the value of 8 bytes, most significant first
Uint64(bs) == [j \in 1..4 |-> bs[2 * j - 1] * 256 + bs[2 * j]]

(***************************************************************************)
(* The generator.                                                          *)
(***************************************************************************)
\* NewFromTime(t), t given as uint64(t.UnixNano()), with rnd the 6 bytes that
\* rand.Reader.Read delivers: PutUint64 writes id[0:8], Read then overwrites
\* id[6:12].  (A failing Read panics; nothing is returned.)
NewFromTimeOf(t, rnd) ==
    LET stamped == [i \in 1..rawLen |-> IF i <= 8 THEN PutUint64(t)[i] ELSE 0]
    IN  [i \in 1..rawLen |-> IF i >= 7 THEN rnd[i - 6] ELSE stamped[i]]

\* A faulty variant of AtomicAddUint64: a 32-bit add, the carry out of bit 31 lost.
AtomicAddUint32(count) ==
    IF count[4] < 65535 THEN <<count[1], count[2], count[3], count[4] + 1>>
    ELSE IF count[3] < 65535 THEN <<count[1], count[2], count[3] + 1, 0>>
    ELSE <<count[1], count[2], 0, 0>>

\* atomic.AddUint64(&atomicCount, 1): the new value, stored and returned
AtomicAddUint64(count) == U64Inc(count)

\* The Apply*Concurrence functions take the ID by value: `arg` is the callee's
\* own copy of the array.  Each returns the counter it leaves and the copy as
\* the callee leaves it.
ApplyNanoConcurrence(arg, count) ==
    LET adder == AtomicAddUint64(count)
    IN  [atomicCount |-> adder, adder |-> adder,
         id |-> [arg EXCEPT ![7] = BitOr(BitAnd(Shl(ByteOfU64(adder, 0), 4), 240),
                                         BitAnd(arg[7], 15))]]

ApplyLowConcurrence(arg, count) ==
    LET adder == AtomicAddUint64(count)
    IN  [atomicCount |-> adder, adder |-> adder,
         id |-> [arg EXCEPT ![7] = ByteOfU64(adder, 0)]]

ApplyMediumConcurrence(arg, count) ==
    LET adder == AtomicAddUint64(count)
    IN  [atomicCount |-> adder, adder |-> adder,
         id |-> [arg EXCEPT ![7] = ByteOfU64(adder, 1), ![8] = ByteOfU64(adder, 0)]]

ApplyHighConcurrence(arg, count) ==
    LET adder == AtomicAddUint64(count)
    IN  [atomicCount |-> adder, adder |-> adder,
         id |-> [arg EXCEPT ![7] = ByteOfU64(adder, 2), ![8] = ByteOfU64(adder, 1),
                            ![9] = ByteOfU64(adder, 0)]]

\* The switch of NewWithConcurrence on the caller's array `own`: the callee
\* works on a copy, a level outside the four cases does nothing.
ApplyLevel(level, own, count) ==
    CASE level = NANO   -> ApplyNanoConcurrence(own, count)
      [] level = LOW    -> ApplyLowConcurrence(own, count)
      [] level = MEDIUM -> ApplyMediumConcurrence(own, count)
      [] level = HIGH   -> ApplyHighConcurrence(own, count)
      [] OTHER          -> [atomicCount |-> count, adder |-> count, id |-> own]

\* NewWithConcurrence(level, t): id := NewFromTime(t); the switch; return id.
\* `id` is the caller's array, which no callee can reach; `param` is what
\* the callee made of its copy.
NewWithConcurrenceOf(level, t, rnd, count) ==
    LET own == NewFromTimeOf(t, rnd)
        applied == ApplyLevel(level, own, count)
    IN  [id |-> own, atomicCount |-> applied.atomicCount,
         adder |-> applied.adder, param |-> applied.id]

\* A faulty variant of TimeOf: the six bytes copied to nowBytes[2:8], the low end.
TimeOfLow(x) == Uint64([i \in 1..8 |-> IF i >= 3 THEN x[i - 2] ELSE 0])

\* id.Time(): nowBytes := make([]byte, 8); copy(nowBytes[0:6], id[0:6]);
\* the nanoseconds int64(BigEndian.Uint64(nowBytes)), as a 64-bit pattern
TimeOf(x) == Uint64([i \in 1..8 |-> IF i <= 6 THEN x[i] ELSE 0])

\* id.Counter(): id[6:] as a big-endian 6-byte value
CounterOf(x) ==
    <<0, x[7] * 256 + x[8], x[9] * 256 + x[10], x[11] * 256 + x[12]>>

(***************************************************************************)
(* Inputs of the generator.                                                *)
(***************************************************************************)
\* uint64(t.UnixNano()): one nanosecond; a date in 2026 and the same date a
\* few nanoseconds later (same upper 48 bits); a later date; one nanosecond
\* before the epoch.
Times ==
    { <<0, 0, 0, 1>>,
      <<6358, 19003, 11293, 3599>>,
      <<6358, 19003, 11293, 65535>>,
      <<6358, 19003, 11294, 0>>,
      <<65535, 65535, 65535, 65535>> }

\* what rand.Reader.Read may deliver into id[6:12]
Rands == { <<0, 0, 0, 0, 0, 0>>, <<165, 90, 255, 1, 128, 254>> }

\* the levels passed: the four declared ones and one that is no case of the switch
Levels == {NANO, LOW, MEDIUM, HIGH, 4}

CounterLevels == {NANO, LOW, MEDIUM, HIGH}

\* values of the counter when the callers start
Seeds == { <<0, 0, 0, 254>>, <<0, 171, 65535, 65535>>, <<65535, 65535, 65535, 65535>> }

\* how many increments of the counter a run performs
MaxAdds == 2

(***************************************************************************)
(* The generator called by one goroutine: each call is one step.           *)
(***************************************************************************)
NewFromTime ==
    \E t \in Times, rnd \in Rands :
        /\ last' = << [fn |-> "NewFromTime", level |-> -1, t |-> t, rnd |-> rnd,
                       id |-> NewFromTimeOf(t, rnd), adder |-> atomicCount] >>
        /\ prev' = last
        /\ got' = <<>>
        /\ UNCHANGED <<atomicCount, seed, nAdds>>

NewWithConcurrence ==
    \E level \in Levels, t \in Times, rnd \in Rands :
        LET r == NewWithConcurrenceOf(level, t, rnd, atomicCount) IN
        /\ level \in CounterLevels => nAdds < MaxAdds
        /\ atomicCount' = r.atomicCount
        /\ nAdds' = IF level \in CounterLevels THEN nAdds + 1 ELSE nAdds
        /\ last' = << [fn |-> "NewWithConcurrence", level |-> level, t |-> t,
                       rnd |-> rnd, id |-> r.id, adder |-> r.adder] >>
        /\ prev' = last
        /\ got' = <<>>
        /\ UNCHANGED seed

\* last.Time()
Time ==
    /\ last # <<>>
    /\ got' = << [fn |-> "Time", value |-> TimeOf(last[1].id)] >>
    /\ UNCHANGED <<atomicCount, seed, nAdds, last, prev>>

\* last.Counter()
Counter ==
    /\ last # <<>>
    /\ got' = << [fn |-> "Counter", value |-> CounterOf(last[1].id)] >>
    /\ UNCHANGED <<atomicCount, seed, nAdds, last, prev>>

\* The calls start from a counter that holds some value; how the package
\* arrives at its first value is SpecInit.
Init ==
    /\ atomicCount \in Seeds /\ seed = atomicCount /\ nAdds = 0
    /\ last = <<>> /\ prev = <<>> /\ got = <<>>
    /\ IdleCodec /\ IdleConc /\ IdleInit

Next ==
    \/ NewFromTime /\ UNCHANGED <<codecVars, concVars, initVars>>
    \/ NewWithConcurrence /\ UNCHANGED <<codecVars, concVars, initVars>>
    \/ Time /\ UNCHANGED <<codecVars, concVars, initVars>>
    \/ Counter /\ UNCHANGED <<codecVars, concVars, initVars>>

Spec == Init /\ [][Next]_vars

(***************************************************************************)
(* Inputs of the codec.                                                    *)
(***************************************************************************)
\* A sequence of n bytes: `pre` before position k, `v` at k, `suf` after it.
Fill(n, k, v, pre, suf) ==
    [i \in 1..n |-> IF i < k THEN pre ELSE IF i = k THEN v ELSE suf]

ByteSamples == {0, 1, 2, 3, 4, 7, 8, 15, 16, 31, 32, 63, 64, 85, 127, 128,
                170, 192, 224, 240, 248, 252, 254, 255}

IdInputs ==
    { Fill(rawLen, k, v, pre, suf) :
        k \in 1..rawLen, v \in ByteSamples, pre \in {0, 255}, suf \in {0, 255} }

\* The bytes of the alphabet 0-9a-v, written without the tables of the code.
Alphabet == (48..57) \cup (97..118)

\* 20 characters of the alphabet: one free character on a ground of '0' or 'v'.
ValidTexts ==
    { Fill(encodedLen, k, c, g, g) : k \in 1..encodedLen, c \in Alphabet, g \in {48, 118} }

\* 'w', 'z', 'A', 'V', NUL, 0xFF, '/', ':', '`', ' '
OutsideBytes == {119, 122, 65, 86, 0, 255, 47, 58, 96, 32}

InvalidTexts ==
    { Fill(encodedLen, k, c, 48, 48) : k \in {1, 10, 20}, c \in OutsideBytes }
    \cup { Fill(n, 1, 48, 48, 48) : n \in {0, 19, 21} }
    \cup { <<49, 50, 51>> }

TextInputs == ValidTexts \cup InvalidTexts

\* A receiver with no zero byte, to see what an operation leaves untouched.
SampleID == [i \in 1..rawLen |-> 16 * i + i]

(***************************************************************************)
(* The codec as a state machine: the methods applied to an ID value `id`   *)
(* and a text `src`.                                                       *)
(***************************************************************************)
CodecArgs == {src} \cup { enc[i].text : i \in 1..Len(enc) }

\* v.String() / v.MarshalText(), on the value v
String(v) ==
    /\ enc' = << [id |-> v, text |-> StringOf(v)] >>
    /\ enc0' = enc
    /\ UNCHANGED <<src, res>>

\* id.UnmarshalText(text), on the receiver id
UnmarshalText ==
    \E text \in CodecArgs :
        LET r == UnmarshalTextOf(id, text) IN
        /\ id' = r.id
        /\ res' = << [fn |-> "UnmarshalText", arg |-> text, before |-> id,
                      id |-> r.id, err |-> r.err] >>
        /\ UNCHANGED <<src, enc, enc0>>

\* FromString(text): a fresh receiver, returned by value
FromString ==
    \E text \in CodecArgs :
        LET r == FromStringOf(text) IN
        /\ res' = << [fn |-> "FromString", arg |-> text, before |-> ZeroID,
                      id |-> r.id, err |-> r.err] >>
        /\ UNCHANGED <<id, src, enc, enc0>>

InitCodec ==
    /\ \/ id \in IdInputs /\ src = <<>>
       \/ id = SampleID /\ src \in TextInputs
    /\ enc = <<>> /\ enc0 = <<>> /\ res = <<>>
    /\ IdleGen /\ IdleConc /\ IdleInit

NextCodec ==
    \/ String(id) /\ UNCHANGED <<id, genVars, concVars, initVars>>
    \/ UnmarshalText /\ UNCHANGED <<genVars, concVars, initVars>>
    \/ FromString /\ UNCHANGED <<genVars, concVars, initVars>>

SpecCodec == InitCodec /\ [][NextCodec]_vars

(***************************************************************************)
(* The order of the text form: String() applied to a value x and then to   *)
(* a value y.  A pair of calls is all the order of two texts involves, so  *)
(* the calls stop once two of them are recorded.                           *)
(***************************************************************************)
OrderBytes == {0, 1, 7, 8, 127, 128, 248, 255}

OrderInputs ==
    { Fill(rawLen, k, v, pre, suf) :
        k \in 1..rawLen, v \in OrderBytes, pre \in {0, 255}, suf \in {0, 255} }

InitOrder ==
    /\ IdleCodec
    /\ IdleGen /\ IdleConc /\ IdleInit

NextOrder ==
    \E v \in OrderInputs :
        enc0 = <<>> /\ id' = v /\ String(v) /\ UNCHANGED <<genVars, concVars, initVars>>

SpecOrder == InitOrder /\ [][NextOrder]_vars

(***************************************************************************)
(* The generator called by concurrent goroutines.  A call of               *)
(* NewWithConcurrence is three steps: id := NewFromTime(t), the switch     *)
(* with the Apply function it calls, and the return.  Only the second      *)
(* touches shared state, in its atomic.AddUint64.                          *)
(***************************************************************************)
Procs == {1, 2}

\* how many increments of the counter a concurrent run performs
MaxConcAdds == 3

ConcTime == <<6358, 19003, 11293, 3599>>
ConcRand == <<165, 90, 255, 1, 128, 254>>

NoCall == [fn |-> "", level |-> -1, id |-> <<>>, adder |-> <<>>, param |-> <<>>,
           seen |-> <<>>]

\* counter-mode calls that are past NewFromTime and before their increment
Pending == { q \in Procs : pc[q] = "switch" /\ loc[q].level \in CounterLevels }

\* goroutine p calls NewFromTime(t) and gets its identifier
GoNewFromTime(p) ==
    /\ pc[p] = "idle"
    /\ loc' = [loc EXCEPT ![p] = [NoCall EXCEPT !.fn = "NewFromTime",
                                               !.id = NewFromTimeOf(ConcTime, ConcRand)]]
    /\ UNCHANGED <<pc, observed, atomicCount, seed, nAdds>>

\* goroutine p enters NewWithConcurrence(level, t): id := NewFromTime(t)
GoEnter(p) ==
    \E level \in Levels :
        /\ pc[p] = "idle"
        /\ level \in CounterLevels => nAdds + Cardinality(Pending) < MaxConcAdds
        /\ pc' = [pc EXCEPT ![p] = "switch"]
        /\ loc' = [loc EXCEPT ![p] = [NoCall EXCEPT !.fn = "NewWithConcurrence",
                                                   !.level = level,
                                                   !.id = NewFromTimeOf(ConcTime, ConcRand)]]
        /\ UNCHANGED <<observed, atomicCount, seed, nAdds>>

\* the switch: a declared level runs its Apply function, which takes the
\* array by value: adder := atomic.AddUint64(&atomicCount, 1) is its one
\* access to shared state, the writes that follow go to its own copy; any
\* other level does nothing
GoSwitch(p) ==
    LET r == ApplyLevel(loc[p].level, loc[p].id, atomicCount) IN
    /\ pc[p] = "switch"
    /\ atomicCount' = r.atomicCount
    /\ IF loc[p].level \in CounterLevels
       THEN /\ observed' = Append(observed, r.adder)
            /\ nAdds' = nAdds + 1
            /\ loc' = [loc EXCEPT ![p].adder = r.adder, ![p].param = r.id]
       ELSE UNCHANGED <<loc, observed, nAdds>>
    /\ pc' = [pc EXCEPT ![p] = "return"]
    /\ UNCHANGED seed

\* return id: the caller's array, as NewFromTime made it
GoReturn(p) ==
    /\ pc[p] = "return"
    /\ pc' = [pc EXCEPT ![p] = "idle"]
    /\ UNCHANGED <<loc, observed, atomicCount, seed, nAdds>>

\* goroutine p reads the identifier it holds: Time(), Counter(), String()
GoRead(p) ==
    /\ pc[p] = "idle"
    /\ loc[p].id # <<>>
    /\ loc[p].seen = <<>>
    /\ loc' = [loc EXCEPT ![p].seen =
                  <<TimeOf(loc[p].id), CounterOf(loc[p].id), StringOf(loc[p].id)>>]
    /\ UNCHANGED <<pc, observed, atomicCount, seed, nAdds>>

InitConc ==
    /\ atomicCount \in Seeds /\ seed = atomicCount /\ nAdds = 0
    /\ last = <<>> /\ prev = <<>> /\ got = <<>>
    /\ pc = [p \in Procs |-> "idle"]
    /\ loc = [p \in Procs |-> NoCall]
    /\ observed = <<>>
    /\ IdleCodec /\ IdleInit

NextConc ==
    \E p \in Procs :
        \/ GoNewFromTime(p) /\ UNCHANGED <<codecVars, last, prev, got, initVars>>
        \/ GoEnter(p) /\ UNCHANGED <<codecVars, last, prev, got, initVars>>
        \/ GoSwitch(p) /\ UNCHANGED <<codecVars, last, prev, got, initVars>>
        \/ GoReturn(p) /\ UNCHANGED <<codecVars, last, prev, got, initVars>>
        \/ GoRead(p) /\ UNCHANGED <<codecVars, last, prev, got, initVars>>

SpecConc == InitConc /\ [][NextConc]_vars

(***************************************************************************)
(* Package initialisation: var atomicCount = randUInt64().                 *)
(***************************************************************************)
\* the bytes rand.Reader.Read may deliver
SeedBytes == {0, 1, 127, 128, 171, 255}

\* b := make([]byte, 2)
Make ==
    /\ initPc = "start"
    /\ b' = <<0, 0>>
    /\ initPc' = "read"
    /\ UNCHANGED <<operand, acc, atomicCount, seed>>

\* rand.Reader.Read(b): fills b, or fails and randUInt64 panics
Read ==
    /\ initPc = "read"
    /\ \/ /\ b' \in { [i \in 1..Len(b) |-> f[i]] : f \in [1..Len(b) -> SeedBytes] }
          /\ initPc' = "return"
       \/ /\ initPc' = "panic: cannot generate random number"
          /\ UNCHANGED b
    /\ UNCHANGED <<operand, acc, atomicCount, seed>>

\* uint64(b0)<<32 | uint64(b1)<<16 | uint64(b2)<<8 | uint64(b3)
SeedValue(bs) == <<0, bs[1], bs[2], bs[3] * 256 + bs[4]>>

\* The return statement: the operands b[0], b[1], b[2], b[3] are read one by
\* one, each index checked against len(b); with all four read the value is
\* returned and stored in atomicCount.  (Go leaves the order of the four
\* reads open; each order reads every index.)
Return ==
    /\ initPc = "return"
    /\ IF operand < Len(b)
       THEN /\ acc' = Append(acc, b[operand + 1])
            /\ operand' = operand + 1
            /\ IF operand = 3
               THEN /\ atomicCount' = SeedValue(acc')
                    /\ seed' = SeedValue(acc')
                    /\ initPc' = "ready"
               ELSE /\ initPc' = "return"
                    /\ UNCHANGED <<atomicCount, seed>>
       ELSE /\ initPc' = "panic: index out of range"
            /\ UNCHANGED <<operand, acc, atomicCount, seed>>
    /\ UNCHANGED b

InitInit ==
    /\ initPc = "start" /\ b = <<>> /\ operand = 0 /\ acc = <<>>
    /\ atomicCount = <<0, 0, 0, 0>> /\ seed = <<0, 0, 0, 0>> /\ nAdds = 0
    /\ last = <<>> /\ prev = <<>> /\ got = <<>>
    /\ IdleCodec /\ IdleConc

NextInit ==
    \/ Make /\ UNCHANGED <<codecVars, nAdds, last, prev, got, concVars>>
    \/ Read /\ UNCHANGED <<codecVars, nAdds, last, prev, got, concVars>>
    \/ Return /\ UNCHANGED <<codecVars, nAdds, last, prev, got, concVars>>

SpecInit == InitInit /\ [][NextInit]_vars

\* Byte-lexicographic order of two sequences (bytes.Compare(s, t) < 0, and
\* Go's < on strings).
Less(s, t) ==
    \/ \E i \in 1..Len(s) :
          /\ i <= Len(t)
          /\ s[i] < t[i]
          /\ \A j \in 1..(i - 1) : s[j] = t[j]
    \/ /\ Len(s) < Len(t)
       /\ \A j \in 1..Len(s) : s[j] = t[j]

\* A text is well formed: 20 characters, all of the alphabet 0-9a-v.
WellFormed(text) ==
    /\ Len(text) = 20
    /\ \A i \in 1..Len(text) : text[i] \in Alphabet

(***************************************************************************)
(* Claims about the codec (SpecCodec, SpecOrder).                          *)
(***************************************************************************)
\* C1: decoding the text that String/MarshalText produced for x, with
\* FromString or UnmarshalText, returns no error and exactly x.
C1_RoundTrip ==
    \A i \in 1..Len(res), j \in 1..Len(enc) :
        res[i].arg = enc[j].text =>
            res[i].err = nil /\ res[i].id = enc[j].id

\* C1 witness: an identifier with a non-zero last byte was encoded and the
\* text decoded again.
C1_Witness ==
    /\ enc # <<>> /\ res # <<>>
    /\ res[1].arg = enc[1].text
    /\ enc[1].id[12] = 255 /\ enc[1].id[1] = 0

\* C2 as stated: for every well-formed text s, encode(decode(s)) = s.
C2_Original ==
    \A i \in 1..Len(res), j \in 1..Len(enc) :
        (WellFormed(res[i].arg) /\ res[i].err = nil /\ enc[j].id = res[i].id)
            => enc[j].text = res[i].arg

\* C2 amended: for every well-formed text s, encode(decode(s)) agrees with s
\* on the first 19 characters and its 20th character is '0' when s[20] is in
\* 0-9a-f and 'g' when s[20] is in g-v; so it equals s exactly when the 20th
\* character of s is '0' or 'g'.
C2_Amended ==
    \A i \in 1..Len(res), j \in 1..Len(enc) :
        (WellFormed(res[i].arg) /\ res[i].err = nil /\ enc[j].id = res[i].id)
            => LET s == res[i].arg
                   t == enc[j].text
               IN  /\ Len(t) = 20
                   /\ \A k \in 1..19 : t[k] = s[k]
                   /\ t[20] = (IF s[20] \in (48..57) \cup (97..102) THEN 48 ELSE 103)
                   /\ (t = s <=> s[20] \in {48, 103})

\* C2 witness: a well-formed text ending in 'g' was decoded and the result
\* encoded again.
C2_Witness ==
    /\ enc # <<>> /\ res # <<>>
    /\ WellFormed(res[1].arg) /\ res[1].arg[20] = 103
    /\ enc[1].id = res[1].id /\ enc[1].text = res[1].arg

\* C3: UnmarshalText and FromString return ErrInvalidID exactly when the
\* text is not 20 characters of 0-9a-v, and nil otherwise; on the error the
\* destination keeps every byte (FromString returns the zero identifier).
C3_Validation ==
    \A i \in 1..Len(res) :
        LET r == res[i] IN
        /\ r.err = ErrInvalidID <=> ~WellFormed(r.arg)
        /\ r.err # ErrInvalidID => r.err = nil
        /\ r.err = ErrInvalidID => r.id = r.before
        /\ (r.err = ErrInvalidID /\ r.fn = "FromString") => r.id = ZeroID
        /\ r.fn = "UnmarshalText" => id = r.id

\* C3 witness: a 20-character text with one character outside the alphabet
\* was refused on a receiver that held non-zero bytes.
C3_Witness ==
    /\ res # <<>>
    /\ res[1].fn = "UnmarshalText" /\ res[1].err = ErrInvalidID
    /\ Len(res[1].arg) = 20 /\ res[1].before = SampleID

\* C6: x is byte-lexicographically less than y exactly when String(x) is
\* lexicographically less than String(y).
C6_OrderPreserving ==
    \A i \in 1..Len(enc), j \in 1..Len(enc0) :
        Less(enc0[j].id, enc[i].id) <=> Less(enc0[j].text, enc[i].text)

\* C6 witness: two identifiers that agree on their first bytes and differ
\* later, the smaller one followed by larger bytes, were both encoded.
C6_Witness ==
    /\ enc # <<>> /\ enc0 # <<>>
    /\ enc0[1].id[1] = enc[1].id[1]
    /\ enc0[1].id[6] < enc[1].id[6]
    /\ enc0[1].id[12] > enc[1].id[12]
    /\ Less(enc0[1].id, enc[1].id)

(***************************************************************************)
(* Claims about the generator (Spec).                                      *)
(***************************************************************************)
\* C4: two LOW-mode identifiers created in immediate succession with the
\* same timestamp (the case N = 2 of N <= 256 such identifiers) differ in
\* byte[6], whatever random bytes are drawn.
C4_LowDistinct ==
    \A i \in 1..Len(last), j \in 1..Len(prev) :
        ( /\ last[i].fn = "NewWithConcurrence" /\ last[i].level = LOW
          /\ prev[j].fn = "NewWithConcurrence" /\ prev[j].level = LOW
          /\ last[i].t = prev[j].t )
            => last[i].id[7] # prev[j].id[7]

\* C5 as stated: Time() of the identifier NewFromTime(T) returned is T with
\* its low 48 bits preserved and its high 16 bits zero.
C5_Original ==
    \A i \in 1..Len(last), j \in 1..Len(got) :
        (last[i].fn = "NewFromTime" /\ got[j].fn = "Time")
            => got[j].value = <<0, last[i].t[2], last[i].t[3], last[i].t[4]>>

\* C5 amended: Time() of the identifier NewFromTime(T) returned is T with
\* its high 48 bits preserved and its low 16 bits zero.
C5_Amended ==
    \A i \in 1..Len(last), j \in 1..Len(got) :
        (last[i].fn = "NewFromTime" /\ got[j].fn = "Time")
            => got[j].value = <<last[i].t[1], last[i].t[2], last[i].t[3], 0>>

\* C5 witness: Time() was called on an identifier made by NewFromTime from a
\* timestamp whose high 16 bits and low 16 bits are both non-zero.
C5_Witness ==
    /\ last # <<>> /\ got # <<>>
    /\ last[1].fn = "NewFromTime" /\ got[1].fn = "Time"
    /\ last[1].t[1] # 0 /\ last[1].t[4] # 0

\* C7: the identifier NewWithConcurrence(mode, t) returns carries the bits
\* of the counter value c its call obtained: NANO in the high nibble of
\* byte[6] (low nibble as drawn), LOW in byte[6], MEDIUM in byte[6..7], HIGH
\* in byte[6..8]; bytes[0..6) and the other entropy bytes are NewFromTime's.
C7_CounterBits ==
    \A i \in 1..Len(last) :
        LET r == last[i]
            x == r.id
            c == r.adder
            plain == NewFromTimeOf(r.t, r.rnd)
        IN  (r.fn = "NewWithConcurrence" /\ r.level \in CounterLevels) =>
              /\ \A k \in 1..6 : x[k] = plain[k]
              /\ r.level = NANO =>
                    /\ x[7] \div 16 = ByteOfU64(c, 0) % 16
                    /\ x[7] % 16 = r.rnd[1] % 16
                    /\ \A k \in 8..12 : x[k] = plain[k]
              /\ r.level = LOW =>
                    /\ x[7] = ByteOfU64(c, 0)
                    /\ \A k \in 8..12 : x[k] = plain[k]
              /\ r.level = MEDIUM =>
                    /\ x[7] = ByteOfU64(c, 1) /\ x[8] = ByteOfU64(c, 0)
                    /\ \A k \in 9..12 : x[k] = plain[k]
              /\ r.level = HIGH =>
                    /\ x[7] = ByteOfU64(c, 2) /\ x[8] = ByteOfU64(c, 1)
                    /\ x[9] = ByteOfU64(c, 0)
                    /\ \A k \in 10..12 : x[k] = plain[k]

\* A timestamp at or after the epoch: the sign bit of the int64 is clear.
NonNegative(t) == t[1] < 32768

\* the pairs (a, b) of the two latest identifiers, in both orders
LatestPairs ==
    { <<last[i], prev[j]>> : i \in 1..Len(last), j \in 1..Len(prev) }
    \cup { <<prev[j], last[i]>> : i \in 1..Len(last), j \in 1..Len(prev) }

\* C8: for non-negative timestamps T1 < T2 and whatever entropy or counter
\* bytes, bytes[0..6) of the identifier of T1 are not greater than those of
\* the identifier of T2, and when they differ the whole identifier of T1 is
\* smaller than that of T2.
C8_KOrdered ==
    \A pr \in LatestPairs :
        LET a == pr[1]
            z == pr[2]
        IN  (NonNegative(a.t) /\ NonNegative(z.t) /\ Less(a.t, z.t)) =>
              /\ ~Less(SubSeq(z.id, 1, 6), SubSeq(a.id, 1, 6))
              /\ SubSeq(a.id, 1, 6) # SubSeq(z.id, 1, 6) => Less(a.id, z.id)

\* C8 witness: the earlier identifier drew larger entropy bytes than the
\* later one, their stored timestamps differ, and it is the smaller one.
C8_Witness ==
    /\ last # <<>> /\ prev # <<>>
    /\ NonNegative(prev[1].t) /\ NonNegative(last[1].t)
    /\ Less(prev[1].t, last[1].t)
    /\ SubSeq(prev[1].id, 1, 6) # SubSeq(last[1].id, 1, 6)
    /\ prev[1].id[7] > last[1].id[7]
    /\ Less(prev[1].id, last[1].id)

(***************************************************************************)
(* Claims about the shared counter (SpecConc, SpecInit).                   *)
(***************************************************************************)
\* u + k on a uint64 (k below 2^16), wrapping at 2^64, by long addition
U64Plus(u, k) ==
    LET s4 == u[4] + k
        s3 == u[3] + (s4 \div 65536)
        s2 == u[2] + (s3 \div 65536)
        s1 == u[1] + (s2 \div 65536)
    IN  <<s1 % 65536, s2 % 65536, s3 % 65536, s4 % 65536>>

\* C9: under every interleaving the counter is the seed plus the number of
\* counter-mode calls that have run their increment, mod 2^64 (so nothing
\* else changes it), the k-th increment obtained seed + k, and no two calls
\* obtained the same value.
C9_CounterAtomic ==
    /\ atomicCount = U64Plus(seed, nAdds)
    /\ Len(observed) = nAdds
    /\ \A k \in 1..Len(observed) : observed[k] = U64Plus(seed, k)
    /\ \A j, k \in 1..Len(observed) : j # k => observed[j] # observed[k]
    /\ \A q \in Procs :
          (pc[q] = "return" /\ loc[q].level \in CounterLevels)
              => \E k \in 1..Len(observed) : observed[k] = loc[q].adder

\* C9 witness: two goroutines are both between their increment and their
\* return, the counter having wrapped past 2^64 - 1, and hold different
\* values.
C9_Witness ==
    /\ \A q \in Procs : pc[q] = "return" /\ loc[q].level \in CounterLevels
    /\ loc[1].adder # loc[2].adder
    /\ loc[1].level # loc[2].level
    /\ seed = <<65535, 65535, 65535, 65535>>
    /\ atomicCount = <<0, 0, 0, 1>>

\* C10: when the random source succeeds, randUInt64 reads only indexes
\* inside the buffer it allocated and does not fault.
C10_SeedingCompletes ==
    /\ initPc = "return" => operand < Len(b)
    /\ initPc # "panic: index out of range"

====
